---- MODULE Spec2Model ----
(***************************************************************************)
(* A model of Ai.py (Cardly): the AIProcessor class, its two operations    *)
(* categorize_card and generate_report, and the module-level singleton     *)
(* layer (initialize_ai_processor / categorize_card / generate_report).    *)
(*                                                                         *)
(* Representation.  A Python str that the code inspects (the response      *)
(* text, an error description, a category label) is a sequence of          *)
(* one-character strings.  A fixed literal of the source that the code     *)
(* only returns is a single atom of such a sequence.  An Optional value is *)
(* a sequence of length 0 (None) or 1.  Credentials are atoms.             *)
(***************************************************************************)
EXTENDS Integers, Sequences, FiniteSets, TLC

VARIABLES
    env,                  \* os.environ.get('ANTHROPIC_API_KEY'): None, "" or a key
    _processor_instance,  \* the module global: None or an AIProcessor
    obj,                  \* an AIProcessor held directly by a caller, or None
    nextId,               \* identity of the next object constructed
    clients,              \* Anthropic(...) clients created so far
    remoteCalls,          \* client.messages.create calls made so far
    invocations,          \* AIProcessor method invocations so far
    initOk,               \* identity made by the latest successful initialize_ai_processor, or None
    last,                 \* the operation that ran last: its inputs and its outcome
    input,                \* what a single-call specification drew for its call
    pc                    \* "ready" / "done" in a single-call specification, "run" otherwise

vars == <<env, _processor_instance, obj, nextId, clients, remoteCalls,
          invocations, initOk, last, input, pc>>

----------------------------------------------------------------------------
(* Python values *)

None == <<>>

Some(x) == <<x>>

\* bool(x) of an Optional[str] credential: None and "" are falsy
Truthy(opt) == opt # None /\ opt[1] # ""

\* x or y
Or(x, y) == IF Truthy(x) THEN x ELSE y

Min(a, b) == IF a < b THEN a ELSE b

----------------------------------------------------------------------------
(* str operations *)

NL == "\n"

QUOTE == "\""

\* the backquote character (U+0060), named: a TLA+ string literal cannot hold it
BQ == "bq"

\* characters str.strip() removes
PyWhitespace == {" ", NL, "\t", "\r"}

\* characters json.loads skips between tokens
JsonWhitespace == {" ", NL, "\t", "\r"}

\* characters json.loads (strict) rejects inside a string literal
ControlChars == {NL, "\t", "\r"}

RECURSIVE LStrip(_)
LStrip(s) ==
    IF s # <<>> /\ Head(s) \in PyWhitespace THEN LStrip(Tail(s)) ELSE s

RECURSIVE RStrip(_)
RStrip(s) ==
    IF s # <<>> /\ s[Len(s)] \in PyWhitespace
    THEN RStrip(SubSeq(s, 1, Len(s) - 1))
    ELSE s

\* str.strip()
Strip(s) == RStrip(LStrip(s))

\* str.startswith(prefix)
StartsWith(s, prefix) ==
    Len(s) >= Len(prefix) /\ SubSeq(s, 1, Len(prefix)) = prefix

\* s.split(NL): always at least one line
RECURSIVE SplitFrom(_, _, _)
SplitFrom(s, i, cur) ==
    IF i > Len(s) THEN <<cur>>
    ELSE IF s[i] = NL THEN <<cur>> \o SplitFrom(s, i + 1, <<>>)
    ELSE SplitFrom(s, i + 1, Append(cur, s[i]))

Split(s) == SplitFrom(s, 1, <<>>)

\* NL.join(lines)
RECURSIVE Join(_)
Join(lines) ==
    IF lines = <<>> THEN <<>>
    ELSE IF Len(lines) = 1 THEN lines[1]
    ELSE lines[1] \o <<NL>> \o Join(Tail(lines))

\* lines[1:-1]
Inner(lines) == SubSeq(lines, 2, Len(lines) - 1)

\* seq[:n]
Take(s, n) == SubSeq(s, 1, Min(n, Len(s)))

RECURSIVE Reverse(_)
Reverse(s) == IF s = <<>> THEN <<>> ELSE Append(Reverse(Tail(s)), Head(s))

----------------------------------------------------------------------------
(* json.loads, on texts over the alphabet the model draws from: no         *)
(* backslash (so no escape sequence) occurs in them.                       *)

Digits == {"0", "1", "2", "3", "4", "5", "6", "7", "8", "9"}

JsonLiterals ==
    { <<"n", "u", "l", "l">>, <<"t", "r", "u", "e">>, <<"f", "a", "l", "s", "e">>,
      <<"N", "a", "N">>, <<"I", "n", "f", "i", "n", "i", "t", "y">>,
      <<"-", "I", "n", "f", "i", "n", "i", "t", "y">> }

CharAt(s, i) == IF i >= 1 /\ i <= Len(s) THEN s[i] ELSE "EOF"

ParseFail == [ok |-> FALSE]

ParseOk(t, v, n) == [ok |-> TRUE, val |-> [t |-> t, v |-> v], next |-> n]

\* the first index >= i that holds no JSON whitespace
RECURSIVE SkipWs(_, _)
SkipWs(s, i) ==
    IF CharAt(s, i) \in JsonWhitespace THEN SkipWs(s, i + 1) ELSE i

\* the first index >= i that holds no digit
RECURSIVE SkipDigits(_, _)
SkipDigits(s, i) ==
    IF CharAt(s, i) \in Digits THEN SkipDigits(s, i + 1) ELSE i

\* a string literal whose opening quote is at i - 1: scan to the closing quote
RECURSIVE ParseString(_, _, _)
ParseString(s, i, acc) ==
    LET c == CharAt(s, i) IN
    IF c = "EOF" \/ c \in ControlChars \/ c = "\\" THEN ParseFail
    ELSE IF c = QUOTE THEN ParseOk("str", acc, i + 1)
    ELSE ParseString(s, i + 1, Append(acc, c))

\* the number literal at i, after the regular expression of json.scanner:
\* (-?(?:0|[1-9]\d*))(\.\d+)?([eE][-+]?\d+)?

\* the end of the integer part that starts at j
IntEnd(s, j) == IF CharAt(s, j) = "0" THEN j + 1 ELSE SkipDigits(s, j)

\* the end of the optional fraction that starts at k
FracEnd(s, k) ==
    IF CharAt(s, k) = "." /\ CharAt(s, k + 1) \in Digits
    THEN SkipDigits(s, k + 1) ELSE k

\* the index of the first digit of an exponent whose letter is at m
ExpDigits(s, m) == IF CharAt(s, m + 1) \in {"-", "+"} THEN m + 2 ELSE m + 1

\* the end of the optional exponent that starts at m
ExpEnd(s, m) ==
    IF CharAt(s, m) \in {"e", "E"} /\ CharAt(s, ExpDigits(s, m)) \in Digits
    THEN SkipDigits(s, ExpDigits(s, m)) ELSE m

NumberUpTo(s, i, n) == ParseOk("num", SubSeq(s, i, n - 1), n)

\* the number whose digits start at j (i = j, or i = j - 1 holds the sign)
NumberFrom(s, i, j) ==
    IF CharAt(s, j) \in Digits
    THEN NumberUpTo(s, i, ExpEnd(s, FracEnd(s, IntEnd(s, j))))
    ELSE ParseFail

ParseNumber(s, i) == NumberFrom(s, i, IF CharAt(s, i) = "-" THEN i + 1 ELSE i)

LiteralIn(hit) == CHOOSE l \in hit : TRUE

LiteralOf(hit, i) ==
    IF hit = {} THEN ParseFail ELSE ParseOk("lit", LiteralIn(hit), i + Len(LiteralIn(hit)))

\* null, true, false and the constants NaN, Infinity, -Infinity
ParseLiteral(s, i) ==
    LiteralOf({l \in JsonLiterals : SubSeq(s, i, Min(Len(s), i + Len(l) - 1)) = l}, i)

RECURSIVE ParseValue(_, _)
RECURSIVE ParseElems(_, _, _)
RECURSIVE ParseMembers(_, _, _)

\* an array whose first token after the bracket is at j
ArrayFrom(s, j) ==
    IF CharAt(s, j) = "]" THEN ParseOk("list", <<>>, j + 1) ELSE ParseElems(s, j, <<>>)

\* an object whose first token after the brace is at j
ObjectFrom(s, j) ==
    IF CharAt(s, j) = "}" THEN ParseOk("dict", <<>>, j + 1) ELSE ParseMembers(s, j, <<>>)

\* the value that starts at index i with the character c (no leading whitespace)
ValueAt(s, i, c) ==
    IF c = QUOTE THEN ParseString(s, i + 1, <<>>)
    ELSE IF c = "{" THEN ObjectFrom(s, SkipWs(s, i + 1))
    ELSE IF c = "[" THEN ArrayFrom(s, SkipWs(s, i + 1))
    ELSE IF c \in {"n", "t", "f"} THEN ParseLiteral(s, i)
    ELSE IF c \in Digits \/ (c = "-" /\ CharAt(s, i + 1) \in Digits) THEN ParseNumber(s, i)
    ELSE IF c \in {"N", "I", "-"} THEN ParseLiteral(s, i)
    ELSE ParseFail

ParseValue(s, i) == ValueAt(s, i, CharAt(s, i))

\* after the elements items, the token at k: the end of the array or a comma
ElemsNext(s, k, items) ==
    IF CharAt(s, k) = "]" THEN ParseOk("list", items, k + 1)
    ELSE IF CharAt(s, k) = "," THEN ParseElems(s, SkipWs(s, k + 1), items)
    ELSE ParseFail

\* after the elements acc, the element r
ElemsAfter(s, acc, r) ==
    IF ~r.ok THEN ParseFail ELSE ElemsNext(s, SkipWs(s, r.next), Append(acc, r.val))

\* the elements of an array from index i on, acc being those already read
ParseElems(s, i, acc) == ElemsAfter(s, acc, ParseValue(s, i))

\* after the members items, the token at k: the end of the object or a comma
MembersNext(s, k, items) ==
    IF CharAt(s, k) = "}" THEN ParseOk("dict", items, k + 1)
    ELSE IF CharAt(s, k) = "," THEN ParseMembers(s, SkipWs(s, k + 1), items)
    ELSE ParseFail

\* after the members acc and the key, the value r
MemberValue(s, acc, key, r) ==
    IF ~r.ok THEN ParseFail
    ELSE MembersNext(s, SkipWs(s, r.next), Append(acc, <<key.val, r.val>>))

\* after the key, the colon at c and the value
MemberColon(s, acc, key, c) ==
    IF CharAt(s, c) # ":" THEN ParseFail
    ELSE MemberValue(s, acc, key, ParseValue(s, SkipWs(s, c + 1)))

MemberAfterKey(s, acc, key) ==
    IF ~key.ok THEN ParseFail ELSE MemberColon(s, acc, key, SkipWs(s, key.next))

\* the members of an object from index i on, acc being those already read
ParseMembers(s, i, acc) ==
    IF CharAt(s, i) # QUOTE THEN ParseFail
    ELSE MemberAfterKey(s, acc, ParseString(s, i + 1, <<>>))

\* a value r is the whole text when only whitespace follows it
WholeText(s, r) ==
    IF r.ok /\ SkipWs(s, r.next) = Len(s) + 1 THEN [ok |-> TRUE, val |-> r.val]
    ELSE ParseFail

\* json.loads(s): [ok |-> TRUE, val |-> value] or, for a JSONDecodeError, [ok |-> FALSE]
JsonLoads(s) == WholeText(s, ParseValue(s, SkipWs(s, 1)))

----------------------------------------------------------------------------
(* Exceptions.  Every class the model raises derives from Exception.       *)

ExceptionBases(cls) ==
    CASE cls = "JSONDecodeError" -> {"JSONDecodeError", "ValueError", "Exception"}
      [] cls = "ValueError" -> {"ValueError", "Exception"}
      [] cls = "IndexError" -> {"IndexError", "LookupError", "Exception"}
      [] cls = "ZeroDivisionError" -> {"ZeroDivisionError", "ArithmeticError", "Exception"}
      [] cls = "UnboundLocalError" -> {"UnboundLocalError", "NameError", "Exception"}
      [] cls = "RuntimeError" -> {"RuntimeError", "Exception"}
      [] OTHER -> {cls, "Exception"}

\* isinstance(e, cls), as an except clause tests it
IsInstance(e, cls) == cls \in ExceptionBases(e.exc)

\* the outcome of a piece of code: it returned a value, or it raised
Return(value) == [kind |-> "return", value |-> value, exc |-> "", desc |-> <<>>]

Raise(exc, desc) == [kind |-> "raise", value |-> None, exc |-> exc, desc |-> desc]

----------------------------------------------------------------------------
(* The remote capability: client.messages.create either raises or returns  *)
(* a response whose content is a list of text blocks.                      *)

RemoteRaise(exc, desc) == [kind |-> "raise", exc |-> exc, desc |-> desc, content |-> <<>>]

RemoteReturn(content) == [kind |-> "ok", exc |-> "", desc |-> <<>>, content |-> content]

\* response.content[0].text
ContentText(response) ==
    IF response.content = <<>>
    THEN Raise("IndexError", <<"list index out of range">>)
    ELSE Return(response.content[1])

----------------------------------------------------------------------------
(* AIProcessor.__init__ *)

MODEL == "claude-sonnet-4-20250514"

NO_KEY_MESSAGE == <<"API key must be provided or set in ANTHROPIC_API_KEY environment variable">>

\* AIProcessor as it would be if the environment variable came first
AIProcessor_EnvironmentFirst(api_key) ==
    LET key == Or(env, api_key) IN
    IF ~Truthy(key)
    THEN [res |-> Raise("ValueError", NO_KEY_MESSAGE), clients |-> 0]
    ELSE [res |-> Return([id |-> nextId, api_key |-> key[1], model |-> MODEL]),
          clients |-> 1]

\* AIProcessor(api_key): the new object, or the ValueError; clients counts
\* the Anthropic(...) clients the call created
AIProcessor(api_key) ==
    LET key == Or(api_key, env) IN
    IF ~Truthy(key)
    THEN [res |-> Raise("ValueError", NO_KEY_MESSAGE), clients |-> 0]
    ELSE [res |-> Return([id |-> nextId, api_key |-> key[1], model |-> MODEL]),
          clients |-> 1]

----------------------------------------------------------------------------
(* AIProcessor.categorize_card *)

FALLBACK == << <<"General > Uncategorized">> >>

MaxCategories == 3

CategorizeMaxTokens == 1000

CODE_FENCE == <<BQ, BQ, BQ>>

\* StripFence as it would be if only the opening line were dropped
StripFence_KeepsLastLine(response_text) ==
    IF StartsWith(response_text, CODE_FENCE)
    THEN LET lines == Split(response_text) IN
         IF Len(lines) > 2 THEN Join(Tail(lines)) ELSE response_text
    ELSE response_text

\* lines 63-65: drop the first and the last line of a fenced text of 3+ lines
StripFence(response_text) ==
    IF StartsWith(response_text, CODE_FENCE)
    THEN LET lines == Split(response_text) IN
         IF Len(lines) > 2 THEN Join(Inner(lines)) ELSE response_text
    ELSE response_text

\* lines 75-78: [cat.strip() for cat in categories if isinstance(cat, str) and cat.strip()]
RECURSIVE ValidCategories(_)
ValidCategories(categories) ==
    IF categories = <<>> THEN <<>>
    ELSE LET cat == Head(categories) IN
         IF cat.t = "str" /\ Strip(cat.v) # <<>>
         THEN <<Strip(cat.v)>> \o ValidCategories(Tail(categories))
         ELSE ValidCategories(Tail(categories))

\* line 80: valid_categories[:3]
Limit(valid_categories) == Take(valid_categories, MaxCategories)

\* the locals the handlers and the properties read: response_text (None
\* while unbound), what json.loads was given and what it gave
Unbound == [response_text |-> None, loads_arg |-> None, loaded |-> None]

Locals(response_text, categories) ==
    [response_text |-> Some(response_text), loads_arg |-> Some(response_text),
     loaded |-> Some(categories)]

\* Validate as it would be if the list were cut to 3 before it is filtered
Validate_TruncatesFirst(categories) ==
    IF ~categories.ok THEN Raise("JSONDecodeError", <<"Expecting value">>)
    ELSE IF categories.val.t # "list"
    THEN Raise("ValueError", <<"API did not return a list">>)
    ELSE Return(ValidCategories(Take(categories.val.v, MaxCategories)))

\* lines 71-80, categories being what json.loads gave
Validate(categories) ==
    IF ~categories.ok THEN Raise("JSONDecodeError", <<"Expecting value">>)
    ELSE IF categories.val.t # "list"
    THEN Raise("ValueError", <<"API did not return a list">>)
    ELSE Return(Limit(ValidCategories(categories.val.v)))

Validated(response_text, categories) ==
    [out |-> Validate(categories)] @@ Locals(response_text, categories)

\* line 68
Parse(response_text) == Validated(response_text, JsonLoads(response_text))

\* lines 60-80, text being the Return or Raise of response.content[0].text
Extracted(text) ==
    IF text.kind = "raise" THEN [out |-> text] @@ Unbound
    ELSE Parse(StripFence(Strip(text.value)))

\* The try body, lines 51-80, given what the remote call does: its outcome
\* and the locals
CategorizeTry(remote) ==
    IF remote.kind = "raise"
    THEN [out |-> Raise(remote.exc, remote.desc)] @@ Unbound
    ELSE Extracted(ContentText(remote))

\* CategorizeExcept as it would be without the `except Exception` clause
CategorizeExcept_NoCatchAll(t) ==
    IF t.out.kind = "return" THEN [out |-> t.out, log |-> <<>>]
    ELSE IF IsInstance(t.out, "JSONDecodeError")
    THEN IF t.response_text = None
         THEN [out |-> Raise("UnboundLocalError", <<"response_text">>),
               log |-> <<"Error parsing API response">>]
         ELSE [out |-> Return(FALLBACK),
               log |-> <<"Error parsing API response", "Response was">>]
    ELSE [out |-> t.out, log |-> <<>>]

\* The except clauses, lines 82-88, applied to the try body's outcome t.
\* Line 84 reads response_text: unbound, that read raises UnboundLocalError
\* inside the handler, and no clause of this statement catches it.
CategorizeExcept(t) ==
    IF t.out.kind = "return" THEN [out |-> t.out, log |-> <<>>]
    ELSE IF IsInstance(t.out, "JSONDecodeError")
    THEN IF t.response_text = None
         THEN [out |-> Raise("UnboundLocalError", <<"response_text">>),
               log |-> <<"Error parsing API response">>]
         ELSE [out |-> Return(FALLBACK),
               log |-> <<"Error parsing API response", "Response was">>]
    ELSE IF IsInstance(t.out, "Exception")
    THEN [out |-> Return(FALLBACK), log |-> <<"Error calling Claude API for categorization">>]
    ELSE [out |-> t.out, log |-> <<>>]

\* what a categorize_card call did: t the try body, h the handlers
Categorized(self, t, h) ==
    [out |-> h.out, log |-> h.log, calls |-> 1,
     request |-> Some([model |-> self.model, max_tokens |-> CategorizeMaxTokens]),
     loads_arg |-> t.loads_arg, loaded |-> t.loaded, display |-> None]

Handled(self, t) == Categorized(self, t, CategorizeExcept(t))

\* self.categorize_card(question, answer), the remote call doing `remote`
categorize_card(self, remote) == Handled(self, CategorizeTry(remote))

----------------------------------------------------------------------------
(* AIProcessor.generate_report.  performance_data, a dict, is the sequence *)
(* of its items in iteration (insertion) order, each a record with the     *)
(* key, category, and the fields of the value.                             *)

PLACEHOLDER ==
    <<"No performance data available yet. Start reviewing cards to see your progress!">>

UNABLE == <<"Unable to generate report at this time. Error: ">>

ReportMaxTokens == 1500

Percent == 100

\* a / b on ints: the exact quotient as a fraction, or ZeroDivisionError
TrueDiv(a, b) ==
    IF b = 0 THEN Raise("ZeroDivisionError", <<"division by zero">>)
    ELSE Return([num |-> a, den |-> b])

\* Accuracy as it would be without the `if perf.attempts > 0` guard
Accuracy_Unguarded(perf) ==
    LET q == TrueDiv(perf.correct, perf.attempts) IN
    IF q.kind = "raise" THEN q
    ELSE Return([num |-> q.value.num * Percent, den |-> q.value.den])

\* line 97: (perf.correct / perf.attempts * 100) if perf.attempts > 0 else 0
Accuracy(perf) ==
    IF perf.attempts > 0
    THEN LET q == TrueDiv(perf.correct, perf.attempts) IN
         IF q.kind = "raise" THEN q
         ELSE Return([num |-> q.value.num * Percent, den |-> q.value.den])
    ELSE Return([num |-> 0, den |-> 1])

\* f"{accuracy:.1f}%": the nearest tenth, a tie going to the even one
FormatAccuracy(a) ==
    LET scaled == a.num * 10
        floor == scaled \div a.den
        rem2 == 2 * (scaled % a.den)
        tenths == IF rem2 > a.den \/ (rem2 = a.den /\ floor % 2 = 1)
                  THEN floor + 1 ELSE floor
    IN  [whole |-> tenths \div 10, tenth |-> tenths % 10, suffix |-> "%"]

\* f"{perf.multiplier}x"
FormatMultiplier(m) == [value |-> m, suffix |-> "x"]

\* lines 98-104: the display record of one item
DisplayRecord(item) ==
    [category |-> item.category,
     attempts |-> item.attempts,
     correct |-> item.correct,
     accuracy |-> FormatAccuracy(Accuracy(item).value),
     multiplier |-> FormatMultiplier(item.multiplier)]

\* insert x into the ascending sequence s after every element whose key is <= its own
InsertByAttempts(s, x) ==
    LET n == Cardinality({i \in 1..Len(s) : s[i].attempts <= x.attempts})
    IN  SubSeq(s, 1, n) \o <<x>> \o SubSeq(s, n + 1, Len(s))

\* a stable ascending sort by attempts
RECURSIVE SortAscending(_)
SortAscending(s) ==
    IF s = <<>> THEN <<>>
    ELSE InsertByAttempts(SortAscending(SubSeq(s, 1, Len(s) - 1)), s[Len(s)])

\* the sort as it would be if an ascending sort were simply reversed
SortByAttemptsDescending_TiesReversed(s) == Reverse(SortAscending(s))

\* line 107: list.sort(key=attempts, reverse=True), which reverses the list,
\* sorts it stably ascending and reverses the result
SortByAttemptsDescending(s) == Reverse(SortAscending(Reverse(s)))

\* the items whose accuracy cannot be computed
Failing(performance_data) ==
    {i \in 1..Len(performance_data) : Accuracy(performance_data[i]).kind = "raise"}

First(indices) == CHOOSE i \in indices : \A j \in indices : i <= j

SummaryOf(performance_data, bad) ==
    IF bad # {} THEN Accuracy(performance_data[First(bad)])
    ELSE Return(SortByAttemptsDescending(
             [i \in 1..Len(performance_data) |-> DisplayRecord(performance_data[i])]))

\* lines 95-107 (outside any try): the sorted display list, or the error raised
PerformanceSummary(performance_data) ==
    SummaryOf(performance_data, Failing(performance_data))

\* line 132, text being the Return or Raise of response.content[0].text
Report(text) == IF text.kind = "raise" THEN text ELSE Return(Strip(text.value))

\* lines 135-137, t being the outcome of the try body
ReportExcept(t) ==
    IF t.kind = "raise" /\ IsInstance(t, "Exception")
    THEN [out |-> Return(UNABLE \o t.desc),
          log |-> <<"Error calling Claude API for report generation">>]
    ELSE [out |-> t, log |-> <<>>]

\* lines 122-137: the remote call, the text extraction and the except clause
ReportTry(remote) ==
    ReportExcept(IF remote.kind = "raise" THEN Raise(remote.exc, remote.desc)
                 ELSE Report(ContentText(remote)))

Quiet(out) ==
    [out |-> out, log |-> <<>>, calls |-> 0, request |-> None,
     loads_arg |-> None, loaded |-> None, display |-> None]

\* lines 94-137, summary being the display list (or the error) and r the try statement
Reported(self, summary, r) ==
    IF summary.kind = "raise" THEN Quiet(summary)
    ELSE [out |-> r.out, log |-> r.log, calls |-> 1,
          request |-> Some([model |-> self.model, max_tokens |-> ReportMaxTokens]),
          loads_arg |-> None, loaded |-> None, display |-> Some(summary.value)]

\* generate_report as it would be without the empty-mapping short circuit
generate_report_NoShortCircuit(self, performance_data, remote) ==
    Reported(self, PerformanceSummary(performance_data), ReportTry(remote))

\* self.generate_report(performance_data), the remote call doing `remote`
generate_report(self, performance_data, remote) ==
    IF performance_data = <<>> THEN Quiet(Return(PLACEHOLDER))
    ELSE Reported(self, PerformanceSummary(performance_data), ReportTry(remote))

----------------------------------------------------------------------------
(* The module-level singleton layer, lines 141-159 *)

NOT_INITIALIZED == <<"AI Processor not initialized. Call initialize_ai_processor() first.">>

\* the outcome of a call that ran no method body
Bare(out) == Quiet(out)

\* the assignment as it would be if a failed construction cleared the target
Assign_ClearsOnError(current, constructed) ==
    IF constructed.res.kind = "return" THEN Some(constructed.res.value) ELSE None

\* line 147, `target = AIProcessor(api_key)`: the assignment happens only
\* when the constructor returns
Assign(current, constructed) ==
    IF constructed.res.kind = "return" THEN Some(constructed.res.value) ELSE current

\* lines 150-153
module_categorize_card(remote) ==
    IF _processor_instance = None
    THEN Bare(Raise("RuntimeError", NOT_INITIALIZED))
    ELSE categorize_card(_processor_instance[1], remote)

\* lines 156-159
module_generate_report(performance_data, remote) ==
    IF _processor_instance = None
    THEN Bare(Raise("RuntimeError", NOT_INITIALIZED))
    ELSE generate_report(_processor_instance[1], performance_data, remote)

----------------------------------------------------------------------------
(* Bounds and the inputs drawn within them *)

MaxObjects == 2

MaxInvocations == 2

MaxArrayLen == 4

MaxEntries == 3

MaxAttempts == 2

MaxCorrect == 1

EnvValues == {None, Some(""), Some("sk-env")}

ApiKeyArgs == {None, Some(""), Some("sk-A")}

ExcKinds == {"JSONDecodeError", "ValueError", "APIConnectionError", "APITimeoutError"}

Descriptions == { <<>>, <<" ", "t", "i", "m", "e", "d", " ", "o", "u", "t", NL>> }

RaiseOutcomes == {RemoteRaise(k, d) : k \in ExcKinds, d \in Descriptions}

Str(chars) == <<QUOTE>> \o chars \o <<QUOTE>>

\* the texts of the array elements drawn: four strings, a number and null
ElemTexts ==
    { Str(<<"a">>), Str(<<" ", "b", " ">>), Str(<<" ">>), Str(<<>>),
      <<"1">>, <<"n", "u", "l", "l">> }

RECURSIVE CommaJoin(_)
CommaJoin(texts) ==
    IF texts = <<>> THEN <<>>
    ELSE IF Len(texts) = 1 THEN texts[1]
    ELSE texts[1] \o <<",", " ">> \o CommaJoin(Tail(texts))

ArrayText(texts) == <<"[">> \o CommaJoin(texts) \o <<"]">>

ArrayTexts == {ArrayText(es) : es \in UNION {[1..k -> ElemTexts] : k \in 0..MaxArrayLen}}

\* JSON values that are no array
NonArrayTexts ==
    { <<"{", "}">>,
      <<"{">> \o Str(<<"a">>) \o <<":", " ">> \o ArrayText(<<Str(<<"a">>)>>) \o <<"}">>,
      Str(<<"a">>), <<"1">>, <<"-", "1", "e", "1">>,
      <<"n", "u", "l", "l">>, <<"t", "r", "u", "e">>, <<"f", "a", "l", "s", "e">> }

\* texts that are no JSON
InvalidTexts ==
    { <<>>, <<"[">>, <<"a">>, <<"[">> \o Str(<<"a">>) \o <<",", "]">>,
      <<"[">> \o Str(<<"a">>), ArrayText(<<Str(<<"a">>)>>) \o <<" ", "a">>,
      <<"[", QUOTE, "a", NL, QUOTE, "]">>, <<"0", "1">> }

\* an array laid out over several lines
MultiLineTexts ==
    { <<"[", NL, " "  >> \o Str(<<"a">>) \o <<",", NL, " ">> \o Str(<<"b">>) \o <<NL, "]">> }

\* the bodies laid out in every way: the shortest arrays and the rest
CoreBodies ==
    {ArrayText(es) : es \in UNION {[1..k -> ElemTexts] : k \in 0..1}}
        \cup NonArrayTexts \cup InvalidTexts \cup MultiLineTexts

\* a body inside a fence of 3+ lines, with or without a language tag
Fenced(tag, body) == CODE_FENCE \o tag \o <<NL>> \o body \o <<NL>> \o CODE_FENCE

JSON_TAG == <<"j", "s", "o", "n">>

\* the ways a response lays a body out
Layouts(b) ==
    { b,
      <<" ", NL>> \o b \o <<NL, " ">>,
      Fenced(<<>>, b),
      <<NL>> \o Fenced(JSON_TAG, b) \o <<" ", NL>>,
      CODE_FENCE \o b \o <<NL>> \o CODE_FENCE,
      CODE_FENCE \o b \o CODE_FENCE,
      CODE_FENCE \o <<NL>> \o b \o <<NL, "a">>,
      Fenced(<<>>, b) \o <<NL, "a">> }

\* every array bare and in a tagged fence, every core body in every layout
ResponseTexts ==
    ArrayTexts \cup {Fenced(JSON_TAG, b) : b \in ArrayTexts}
        \cup UNION {Layouts(b) : b \in CoreBodies}

\* what the remote call can do in a categorize_card call
CategorizeOutcomes ==
    RaiseOutcomes \cup {RemoteReturn(<<>>)} \cup {RemoteReturn(<<t>>) : t \in ResponseTexts}

ReportTexts == { <<"#", " ", "R">>, <<" ", NL, "#", " ", "R", NL, NL>>, <<" ">>, <<>> }

\* what the remote call can do in a generate_report call
ReportOutcomes ==
    RaiseOutcomes \cup {RemoteReturn(<<>>)} \cup {RemoteReturn(<<t>>) : t \in ReportTexts}

Multipliers == {15}

\* performance_data: its i-th inserted key is category i
PerfItem(i, v) ==
    [category |-> i, attempts |-> v.attempts, correct |-> v.correct,
     multiplier |-> v.multiplier]

PerfValues == [attempts : 0..MaxAttempts, correct : 0..MaxCorrect, multiplier : Multipliers]

PerformanceData ==
    UNION { {[i \in 1..n |-> PerfItem(i, vs[i])] : vs \in [1..n -> PerfValues]} :
            n \in 0..MaxEntries }

\* every mapping with a remote call that raises and one that returns,
\* and the shortest mappings with every outcome
ReportInputs ==
    (PerformanceData
         \X { RemoteRaise("APITimeoutError", <<" ", "t", "i", "m", "e", "d", " ", "o", "u", "t", NL>>),
              RemoteReturn(<<<<" ", NL, "#", " ", "R", NL, NL>>>>) })
        \cup ({p \in PerformanceData : Len(p) <= 1} \X ReportOutcomes)

\* the few inputs of the specification of whole runs
FewOutcomes ==
    { RemoteRaise("JSONDecodeError", <<>>),
      RemoteRaise("APITimeoutError", <<"t">>),
      RemoteReturn(<<ArrayText(<<Str(<<"a">>)>>)>>),
      RemoteReturn(<<<<"a">>>>) }

FewPerformanceData ==
    { <<>>, <<PerfItem(1, [attempts |-> 1, correct |-> 1, multiplier |-> 15])>> }

----------------------------------------------------------------------------
(* State machine *)

NoRemote == [kind |-> "none", exc |-> "", desc |-> <<>>, content |-> <<>>]

\* the record of the operation that ran last
Ran(op, via, self, api_key, perf, remote, r) ==
    [op |-> op, via |-> via, self |-> self, api_key |-> api_key,
     perf |-> perf, remote |-> remote, r |-> r]

NothingRan == Ran("none", "none", 0, None, <<>>, NoRemote, Bare(Return(None)))

Init ==
    /\ env \in EnvValues
    /\ _processor_instance = None
    /\ obj = None
    /\ nextId = 1
    /\ clients = 0
    /\ remoteCalls = 0
    /\ invocations = 0
    /\ initOk = None
    /\ last = NothingRan
    /\ input = None
    /\ pc = "run"

\* obj = AIProcessor(api_key), in a caller's code
Construct(api_key) ==
    /\ nextId <= MaxObjects
    /\ LET c == AIProcessor(api_key) IN
       /\ obj' = Assign(obj, c)
       /\ nextId' = IF c.res.kind = "return" THEN nextId + 1 ELSE nextId
       /\ clients' = clients + c.clients
       /\ last' = Ran("AIProcessor", "direct", 0, api_key, <<>>, NoRemote, Bare(c.res))
    /\ UNCHANGED <<env, _processor_instance, remoteCalls, invocations, initOk>>

\* initialize_ai_processor(api_key), lines 144-147
initialize_ai_processor(api_key) ==
    /\ nextId <= MaxObjects
    /\ LET c == AIProcessor(api_key) IN
       /\ _processor_instance' = Assign(_processor_instance, c)
       /\ nextId' = IF c.res.kind = "return" THEN nextId + 1 ELSE nextId
       /\ clients' = clients + c.clients
       /\ initOk' = IF c.res.kind = "return" THEN Some(nextId) ELSE initOk
       /\ last' = Ran("initialize_ai_processor", "module", 0, api_key, <<>>, NoRemote,
                      Bare(c.res))
    /\ UNCHANGED <<env, obj, remoteCalls, invocations>>

\* a call of a method or of a module-level function, r being what it did
\* and self the object it ran on (0: none)
Call(op, via, self, perf, remote, r) ==
    /\ invocations < MaxInvocations
    /\ remoteCalls' = remoteCalls + r.calls
    /\ invocations' = IF self = 0 THEN invocations ELSE invocations + 1
    /\ last' = Ran(op, via, self, None, perf, remote, r)
    /\ UNCHANGED <<env, _processor_instance, obj, nextId, clients, initOk>>

\* obj.categorize_card(question, answer)
MethodCategorizeCard(remote) ==
    /\ obj # None
    /\ Call("categorize_card", "method", obj[1].id, <<>>, remote,
            categorize_card(obj[1], remote))

\* obj.generate_report(performance_data)
MethodGenerateReport(performance_data, remote) ==
    /\ obj # None
    /\ Call("generate_report", "method", obj[1].id, performance_data,
            IF performance_data = <<>> THEN NoRemote ELSE remote,
            generate_report(obj[1], performance_data, remote))

\* categorize_card(question, answer), the module-level function
ModuleCategorizeCard(remote) ==
    Call("categorize_card", "module",
         IF _processor_instance = None THEN 0 ELSE _processor_instance[1].id,
         <<>>,
         IF _processor_instance = None THEN NoRemote ELSE remote,
         module_categorize_card(remote))

\* generate_report(performance_data), the module-level function
ModuleGenerateReport(performance_data, remote) ==
    Call("generate_report", "module",
         IF _processor_instance = None THEN 0 ELSE _processor_instance[1].id,
         performance_data,
         IF _processor_instance = None \/ performance_data = <<>> THEN NoRemote ELSE remote,
         module_generate_report(performance_data, remote))

(* Whole runs: any sequence of constructions, initializations and calls *)

DoConstruct ==
    pc = "run" /\ (\E k \in ApiKeyArgs : Construct(k)) /\ UNCHANGED <<input, pc>>

DoInitialize ==
    pc = "run" /\ (\E k \in ApiKeyArgs : initialize_ai_processor(k)) /\ UNCHANGED <<input, pc>>

DoMethodCategorizeCard ==
    pc = "run" /\ (\E o \in FewOutcomes : MethodCategorizeCard(o)) /\ UNCHANGED <<input, pc>>

DoMethodGenerateReport ==
    /\ pc = "run"
    /\ \E p \in FewPerformanceData, o \in FewOutcomes : MethodGenerateReport(p, o)
    /\ UNCHANGED <<input, pc>>

DoModuleCategorizeCard ==
    pc = "run" /\ (\E o \in FewOutcomes : ModuleCategorizeCard(o)) /\ UNCHANGED <<input, pc>>

DoModuleGenerateReport ==
    /\ pc = "run"
    /\ \E p \in FewPerformanceData, o \in FewOutcomes : ModuleGenerateReport(p, o)
    /\ UNCHANGED <<input, pc>>

Next ==
    \/ DoConstruct
    \/ DoInitialize
    \/ DoMethodCategorizeCard
    \/ DoMethodGenerateReport
    \/ DoModuleCategorizeCard
    \/ DoModuleGenerateReport

Spec == Init /\ [][Next]_vars

(* One call of a method with a drawn input, on a constructed processor *)

Constructed ==
    /\ env = None
    /\ _processor_instance = None
    /\ obj = Some([id |-> 1, api_key |-> "sk-A", model |-> MODEL])
    /\ nextId = 2
    /\ clients = 1
    /\ remoteCalls = 0
    /\ invocations = 0
    /\ initOk = None
    /\ last = Ran("AIProcessor", "direct", 0, Some("sk-A"), <<>>, NoRemote,
                  Bare(Return([id |-> 1, api_key |-> "sk-A", model |-> MODEL])))
    /\ pc = "ready"

InitCategorize == Constructed /\ input = None

\* the call, input recording what the remote call was drawn to do
CategorizeInput ==
    /\ pc = "ready"
    /\ \E o \in CategorizeOutcomes : MethodCategorizeCard(o) /\ input' = o
    /\ pc' = "done"

SpecCategorize == InitCategorize /\ [][CategorizeInput]_vars

InitReport == Constructed /\ input = None

\* the call, input recording the mapping and what the remote call was drawn to do
ReportInput ==
    /\ pc = "ready"
    /\ \E i \in ReportInputs : MethodGenerateReport(i[1], i[2]) /\ input' = i
    /\ pc' = "done"

SpecReport == InitReport /\ [][ReportInput]_vars

----------------------------------------------------------------------------
(* Properties.  Their vocabulary is stated on its own, not with the        *)
(* operators of the model above.                                           *)

\* s without its leading and trailing whitespace: from its first
\* non-whitespace character to its last
Inked(s) == {i \in 1..Len(s) : s[i] \notin PyWhitespace}

Trimmed(s) ==
    IF Inked(s) = {} THEN <<>>
    ELSE SubSeq(s, CHOOSE i \in Inked(s) : \A j \in Inked(s) : i <= j,
                   CHOOSE i \in Inked(s) : \A j \in Inked(s) : i >= j)

\* the positions of the line breaks of s
Breaks(s) == {i \in 1..Len(s) : s[i] = NL}

FirstBreak(s) == CHOOSE i \in Breaks(s) : \A j \in Breaks(s) : i <= j

LastBreak(s) == CHOOSE i \in Breaks(s) : \A j \in Breaks(s) : i >= j

\* s without its first and its last line (s has at least two line breaks)
WithoutOuterLines(s) == SubSeq(s, FirstBreak(s) + 1, LastBreak(s) - 1)

OpensWithFence(s) == Len(s) >= 3 /\ s[1] = BQ /\ s[2] = BQ /\ s[3] = BQ

\* s is a fence of 3+ lines: an opening line that starts with the marker,
\* a body, and a closing line that is the marker
IsFenceAround(s) ==
    /\ OpensWithFence(s)
    /\ Cardinality(Breaks(s)) >= 2
    /\ SubSeq(s, LastBreak(s) + 1, Len(s)) = <<BQ, BQ, BQ>>

\* a categorize_card call has run on a processor
DoneCategorize == pc = "done" /\ last.op = "categorize_card" /\ last.self # 0

\* ... in which the remote call returned a response that holds a text
GotText == DoneCategorize /\ last.remote.kind = "ok" /\ last.remote.content # <<>>

\* ... and json.loads was reached and returned a value
GotJson == GotText /\ last.r.loaded # None /\ last.r.loaded[1].ok

ReturnedFallback ==
    last.r.out.kind = "return" /\ last.r.out.value = << <<"General > Uncategorized">> >>

\* C1: for every error the remote generation call raises, of any exception
\* kind (a JSON-decode error or another ValueError included),
\* categorize_card returns exactly ["General > Uncategorized"] and no
\* exception escapes to the caller.
C1_RemoteErrorGivesFallback ==
    (DoneCategorize /\ last.remote.kind = "raise") => ReturnedFallback

\* the elements of a parsed array that are strings and non-empty after trimming
Kept(array) ==
    {i \in 1..Len(array) : array[i].t = "str" /\ Inked(array[i].v) # {}}

\* the k-th of them, in the array's order
KeptAt(array, k) ==
    CHOOSE i \in Kept(array) : Cardinality({j \in Kept(array) : j < i}) = k - 1

\* C2: when the text parses as a JSON array, categorize_card returns the
\* elements that are strings and non-empty after trimming, each trimmed, in
\* the array's order, cut to the first 3 of them (elements dropped by the
\* filter do not count toward the 3); so the result has 0 to 3 entries,
\* none empty or untrimmed.
C2_FilterTrimThenFirstThree ==
    (GotJson /\ last.r.loaded[1].val.t = "list") =>
        LET array == last.r.loaded[1].val.v
            result == last.r.out.value
        IN  /\ last.r.out.kind = "return"
            /\ Len(result) = Min(3, Cardinality(Kept(array)))
            /\ \A k \in 1..Len(result) :
                  /\ result[k] = Trimmed(array[KeptAt(array, k)].v)
                  /\ result[k] # <<>>
                  /\ result[k][1] \notin PyWhitespace
                  /\ result[k][Len(result[k])] \notin PyWhitespace

\* C2's case: a 4-element array whose first element the filter drops and
\* whose other three are kept, one of them after trimming
C2_Witness ==
    /\ GotJson /\ last.r.loaded[1].val.t = "list"
    /\ Len(last.r.loaded[1].val.v) = 4
    /\ Kept(last.r.loaded[1].val.v) = {2, 3, 4}
    /\ last.r.loaded[1].val.v[4].v = <<" ", "b", " ">>
    /\ Len(last.r.out.value) = 3

\* C3: when the remote call succeeds but the text is no valid JSON, or is a
\* JSON value other than an array, categorize_card returns exactly
\* ["General > Uncategorized"] and does not raise.
C3_NotAnArrayGivesFallback ==
    (GotText /\ ~(GotJson /\ last.r.loaded[1].val.t = "list")) => ReturnedFallback

\* C3's case: the text is a JSON object
C3_Witness ==
    GotJson /\ last.r.loaded[1].val.t = "dict" /\ last.r.loaded[1].val.v # <<>>

\* C4: the text handed to json.loads is the trimmed response without its
\* first and last lines exactly when the trimmed response starts with the
\* fence marker and has more than two lines, and the trimmed response itself
\* otherwise; hence a JSON array inside a fence of 3+ lines is categorized
\* like the bare array.
C4_FenceStripping ==
    GotText =>
        LET trimmed == Trimmed(last.remote.content[1])
            stripped == OpensWithFence(trimmed) /\ Cardinality(Breaks(trimmed)) >= 2
        IN  /\ last.r.loads_arg =
                   <<IF stripped THEN WithoutOuterLines(trimmed) ELSE trimmed>>
            /\ (IsFenceAround(trimmed)
                    /\ JsonLoads(WithoutOuterLines(trimmed)).ok
                    /\ JsonLoads(WithoutOuterLines(trimmed)).val.t = "list")
               => last.r.out = categorize_card(
                                   obj[1],
                                   RemoteReturn(<<WithoutOuterLines(trimmed)>>)).out

\* C4's case: an array of two labels inside a 3-line fence, categorized
C4_Witness ==
    /\ GotText
    /\ IsFenceAround(Trimmed(last.remote.content[1]))
    /\ Cardinality(Breaks(Trimmed(last.remote.content[1]))) = 2
    /\ last.r.out.kind = "return"
    /\ Len(last.r.out.value) = 2

\* a generate_report call has run on a processor
DoneReport == pc = "done" /\ last.op = "generate_report" /\ last.self # 0

\* C5: generate_report of an empty mapping returns the fixed placeholder
\* string and makes no remote call.
C5_EmptyMappingShortCircuits ==
    (DoneReport /\ last.perf = <<>>) =>
        /\ last.r.out.kind = "return"
        /\ last.r.out.value =
               <<"No performance data available yet. Start reviewing cards to see your progress!">>
        /\ last.r.calls = 0
        /\ remoteCalls = 0

\* C5's case: the mapping is empty and the remote call, if made, would raise
C5_Witness == DoneReport /\ last.perf = <<>> /\ input[2].kind = "raise"

\* C6: for every non-empty mapping with non-negative attempts and correct
\* (attempts = 0 included) and every outcome of the remote call,
\* generate_report returns a string and raises nothing; when the remote call
\* raises an error described by d the result is
\* "Unable to generate report at this time. Error: " followed by d, and when
\* it returns a text the result is that text trimmed.
C6_ReportNeverRaises ==
    (DoneReport /\ last.perf # <<>>) =>
        /\ last.r.out.kind = "return"
        /\ input[2].kind = "raise" =>
               last.r.out.value =
                   <<"Unable to generate report at this time. Error: ">> \o input[2].desc
        /\ (input[2].kind = "ok" /\ input[2].content # <<>>) =>
               last.r.out.value = Trimmed(input[2].content[1])

\* C6's case: a record with attempts = 0, and a remote call that raises
\* with a description that has whitespace around it
C6_Witness ==
    /\ DoneReport
    /\ \E i \in 1..Len(last.perf) : last.perf[i].attempts = 0
    /\ input[2].kind = "raise"
    /\ input[2].desc # <<>>

\* where the key of a display record was in the input mapping
Position(perf, category) == CHOOSE i \in 1..Len(perf) : perf[i].category = category

\* C7: the display list is a permutation of the input entries, one record
\* per key, ordered by attempts descending, entries with equal attempts in
\* the relative order of the input mapping.
C7_StableDescendingByAttempts ==
    (DoneReport /\ last.perf # <<>>) =>
        /\ last.r.display # None
        /\ LET perf == last.perf
               shown == last.r.display[1]
           IN  /\ Len(shown) = Len(perf)
               /\ {shown[k].category : k \in 1..Len(shown)}
                      = {perf[i].category : i \in 1..Len(perf)}
               /\ \A k \in 1..Len(shown) :
                      /\ shown[k].attempts = perf[Position(perf, shown[k].category)].attempts
                      /\ shown[k].correct = perf[Position(perf, shown[k].category)].correct
               /\ \A k, l \in 1..Len(shown) :
                      k < l =>
                          \/ shown[k].attempts > shown[l].attempts
                          \/ /\ shown[k].attempts = shown[l].attempts
                             /\ Position(perf, shown[k].category)
                                    < Position(perf, shown[l].category)

\* C7's case: two entries tie on attempts and a later entry has more
C7_Witness ==
    /\ DoneReport
    /\ Len(last.perf) = 3
    /\ last.perf[1].attempts = last.perf[2].attempts
    /\ last.perf[3].attempts > last.perf[1].attempts
    /\ last.r.display # None

ModuleCall == last.via = "module" /\ last.op \in {"categorize_card", "generate_report"}

RaisedNotInitialized ==
    /\ last.r.out.kind = "raise"
    /\ last.r.out.exc = "RuntimeError"
    /\ last.r.out.desc = <<"AI Processor not initialized. Call initialize_ai_processor() first.">>

\* C8: a module-level call raises the "not initialized" RuntimeError, with
\* no remote call, exactly when no initialize_ai_processor call has
\* succeeded so far, and otherwise runs on the instance the latest
\* successful initialize_ai_processor made; a successful initialize replaces
\* the stored instance and a failed one leaves it (or its absence) as it was.
C8_SingletonLifecycle ==
    /\ ModuleCall =>
          IF initOk = None
          THEN RaisedNotInitialized /\ last.r.calls = 0 /\ last.self = 0
          ELSE ~RaisedNotInitialized /\ last.self = initOk[1]
    /\ (initOk = None) = (_processor_instance = None)
    /\ initOk # None => _processor_instance[1].id = initOk[1]
    /\ (last.op = "initialize_ai_processor" /\ last.r.out.kind = "return") =>
          _processor_instance = <<last.r.out.value>>

\* C8's case: a module-level call served by the second instance that
\* initialize_ai_processor stored (no other object was ever made)
C8_Witness ==
    ModuleCall /\ obj = None /\ initOk = <<2>> /\ last.self = 2 /\ last.r.calls = 1

ConstructorRan == {"AIProcessor", "initialize_ai_processor"}

\* C9: constructing AIProcessor with no explicit credential (absent or
\* empty) while ANTHROPIC_API_KEY is unset or empty raises ValueError before
\* any client is created or remote call made; an explicit non-empty
\* credential is the one stored, whatever the environment variable holds;
\* construction makes no remote call.
C9_CredentialResolution ==
    [][last'.op \in ConstructorRan =>
          /\ remoteCalls' = remoteCalls
          /\ (~Truthy(last'.api_key) /\ ~Truthy(env)) =>
                 /\ last'.r.out.kind = "raise"
                 /\ last'.r.out.exc = "ValueError"
                 /\ clients' = clients
                 /\ obj' = obj
                 /\ _processor_instance' = _processor_instance
          /\ Truthy(last'.api_key) =>
                 /\ last'.r.out.kind = "return"
                 /\ last'.r.out.value.api_key = last'.api_key[1]
                 /\ last'.r.out.value.model = "claude-sonnet-4-20250514"
                 /\ clients' = clients + 1]_vars

\* C9's case: an explicit credential given while the environment variable
\* holds another one
C9_Witness ==
    /\ last.op = "AIProcessor"
    /\ last.api_key = <<"sk-A">>
    /\ env = <<"sk-env">>
    /\ obj # None
    /\ obj[1].api_key = "sk-A"

\* C10: every categorize_card call, and every generate_report call with a
\* non-empty mapping, makes exactly one remote call whatever that call does,
\* and returns its result or fallback right after it; the remote calls never
\* outnumber the invocations.
C10_OneRemoteCallThenReturn ==
    /\ (last.self # 0 /\ (last.op = "categorize_card"
                           \/ (last.op = "generate_report" /\ last.perf # <<>>))) =>
           last.r.calls = 1 /\ last.r.out.kind = "return"
    /\ remoteCalls <= invocations

====
